---- MODULE Spec2Model ----
(***************************************************************************)
(* A model of the refapp-api React sample: the App component (its state,   *)
(* its config-fetching effect and its handlers), the AtsConfigPreview      *)
(* mapper from config fields to form controls, and the zod schemas of the  *)
(* partner-event payload.                                                  *)
(***************************************************************************)
EXTENDS Integers, Sequences, FiniteSets, TLC

VARIABLES
    configMethod,        \* App state: "sample" or "live"
    atsConfigFile,       \* App state: the chosen sample file, "" when none
    atsConfig,           \* App state: the held document ([held |-> FALSE] when undefined)
    liveConfigEndpoint,  \* App state: text of the "Configuration Endpoint" input
    livePostEndpoint,    \* App state: text of the "POST Endpoint" input
    liveAtsSecret,       \* App state
    liveCustomerSecret,  \* App state
    liveCustomerDomain,  \* App state
    submitResults,       \* App state
    resetTrigger,        \* App state: counter bumped by onReset
    value,               \* per-control useState of AtsConfigFieldPreview, in document order
    rendered,            \* the elements AtsConfigPreview returned in the last render
    pendingFetches,      \* promises of fetchFromGitHub / fetchFromRefapp not yet settled
    fetchCount,          \* number of fetches the effect has started so far
    latestRequest,       \* what the last run of the effect did: 0 cleared, n started fetch n
    heldRequest,         \* the fetch whose result atsConfig holds (0: none)
    crashed,             \* a render threw: React has unmounted the tree
    pendingSubmits,      \* promises of submitLive not yet settled
    submitCount,         \* number of clicks on Submit so far
    lastSettled,         \* the config fetch that settled last, and what it met
    schemaInput,         \* the payload handed to atsPartnerEventPayloadSchema.parse
    schemaOutput,        \* the result of that parse
    reactSampleOutput    \* the result of the parse by the schema of react-sample/src/lib

vars == <<configMethod, atsConfigFile, atsConfig, liveConfigEndpoint,
          livePostEndpoint, liveAtsSecret, liveCustomerSecret,
          liveCustomerDomain, submitResults, resetTrigger, value, rendered,
          pendingFetches, fetchCount, latestRequest, heldRequest, crashed,
          pendingSubmits, submitCount, lastSettled, schemaInput, schemaOutput,
          reactSampleOutput>>

appVars == <<configMethod, atsConfigFile, atsConfig, liveConfigEndpoint,
             livePostEndpoint, liveAtsSecret, liveCustomerSecret,
             liveCustomerDomain, submitResults, resetTrigger, value, rendered,
             pendingFetches, fetchCount, latestRequest, heldRequest, crashed,
             pendingSubmits, submitCount, lastSettled>>

schemaVars == <<schemaInput, schemaOutput, reactSampleOutput>>

submitVars == <<pendingSubmits, submitCount>>

(***************************************************************************)
(* JSON values.  Every scalar is a record of one shape, so that values of  *)
(* different JavaScript types can be compared.                             *)
(***************************************************************************)
Undefined == [t |-> "undefined", s |-> "", b |-> FALSE, n |-> 0]
Null == [t |-> "null", s |-> "", b |-> FALSE, n |-> 0]
Str(x) == [t |-> "string", s |-> x, b |-> FALSE, n |-> 0]
Bool(x) == [t |-> "boolean", s |-> "", b |-> x, n |-> 0]
Num(x) == [t |-> "number", s |-> "", b |-> FALSE, n |-> x]

\* lodash _.isString / _.isBoolean
isString(v) == v.t = "string"
isBoolean(v) == v.t = "boolean"

\* JavaScript truthiness of a scalar (the `x ? a : b` and `!x` tests)
Truthy(v) ==
    CASE v.t = "undefined" -> FALSE
      [] v.t = "null" -> FALSE
      [] v.t = "string" -> v.s # ""
      [] v.t = "boolean" -> v.b
      [] v.t = "number" -> v.n # 0
      [] OTHER -> TRUE

\* An `options` attribute: absent, or an array of {id, label}
NoOptions == [t |-> "undefined", items |-> <<>>]
Options(items) == [t |-> "array", items |-> items]
Option(id, label) == [id |-> Str(id), label |-> Str(label)]

\* Mutant of OptionsTruthy: an empty array counts as no options
OptionsTruthy_NonEmpty(o) == o.t = "array" /\ o.items # <<>>

\* JavaScript truthiness of `field.options`: an array, even an empty one, is truthy
OptionsTruthy(o) == o.t = "array"

\* One entry of config.fields as it arrives from response.json()
Field(id, type, label) ==
    [id |-> id, type |-> type, label |-> label, value |-> Undefined,
     placeholder |-> Undefined, options |-> NoOptions, disabled |-> Undefined,
     labelMarkdown |-> Undefined, labelHtml |-> Undefined, labelClass |-> Undefined]

(***************************************************************************)
(* AtsConfigPreview.tsx: the mapper from a field to a control.             *)
(***************************************************************************)
\* What AtsConfigFieldPreview returns: one React element, described
NoDescriptor ==
    [kind |-> "null", name |-> Undefined, label |-> Undefined, value |-> Undefined,
     disabled |-> Undefined, placeholder |-> Undefined, options |-> <<>>,
     variant |-> "", severity |-> Undefined]

\* Mutant of toSeverity: "default" is handed to the Alert like any other class
toSeverity_DefaultIsSeverity(v) ==
    IF ~Truthy(v) THEN Undefined ELSE v

toSeverity(v) ==
    IF ~Truthy(v) \/ v = Str("default") THEN Undefined ELSE v

textVariantFromFieldType(fieldType) ==
    CASE fieldType = Str("header") -> "h2"
      [] fieldType = Str("subheader") -> "h3"
      [] fieldType = Str("paragraph") -> "body1"
      [] OTHER -> "never"

\* TextContainer: an Alert of the severity, or a bare fragment
TextContainer(labelClass, child) ==
    [child EXCEPT !.severity = toSeverity(labelClass)]

\* assertIsNever hands its argument back: the component returns the field object
assertIsNever == [NoDescriptor EXCEPT !.kind = "never"]

\* Mutant of CheckboxCase: checked={!!value}
CheckboxCase_Truthy(field, v) ==
    [NoDescriptor EXCEPT !.kind = "checkbox", !.name = field.id,
        !.label = field.label, !.disabled = field.disabled,
        !.value = Bool(Truthy(v))]

CheckboxCase(field, v) ==
    [NoDescriptor EXCEPT !.kind = "checkbox", !.name = field.id,
        !.label = field.label, !.disabled = field.disabled,
        !.value = IF isBoolean(v) THEN v ELSE Bool(FALSE)]

\* Mutant of LabelCase: field["label-markdown"] !== undefined as the test
LabelCase_MarkdownWhenDefined(field) ==
    TextContainer(field.labelClass,
        IF field.labelMarkdown # Undefined
        THEN [NoDescriptor EXCEPT !.kind = "markdown", !.label = field.labelMarkdown]
        ELSE [NoDescriptor EXCEPT !.kind = "typography", !.label = field.label,
                !.variant = textVariantFromFieldType(field.type)])

\* Mutant of LabelCase: label-html, when there is one, is set as inner HTML
LabelCase_HtmlFirst(field) ==
    TextContainer(field.labelClass,
        IF Truthy(field.labelHtml)
        THEN [NoDescriptor EXCEPT !.kind = "html", !.label = field.labelHtml]
        ELSE IF Truthy(field.labelMarkdown)
        THEN [NoDescriptor EXCEPT !.kind = "markdown", !.label = field.labelMarkdown]
        ELSE [NoDescriptor EXCEPT !.kind = "typography", !.label = field.label,
                !.variant = textVariantFromFieldType(field.type)])

\* Mutant of LabelCase: the Typography is greyed out when the field is disabled
LabelCase_Disabled(field) ==
    TextContainer(field.labelClass,
        IF Truthy(field.labelMarkdown)
        THEN [NoDescriptor EXCEPT !.kind = "markdown", !.label = field.labelMarkdown]
        ELSE [NoDescriptor EXCEPT !.kind = "typography", !.label = field.label,
                !.variant = textVariantFromFieldType(field.type),
                !.disabled = field.disabled])

LabelCase(field) ==
    TextContainer(field.labelClass,
        IF Truthy(field.labelMarkdown)
        THEN [NoDescriptor EXCEPT !.kind = "markdown", !.label = field.labelMarkdown]
        ELSE [NoDescriptor EXCEPT !.kind = "typography", !.label = field.label,
                !.variant = textVariantFromFieldType(field.type)])

\* Mutant of SelectCase: value={value}, without the _.isString test
SelectCase_RawValue(field, v) ==
    IF OptionsTruthy(field.options)
    THEN [NoDescriptor EXCEPT !.kind = "select", !.name = field.id,
            !.label = field.label, !.disabled = field.disabled,
            !.value = v, !.options = field.options.items]
    ELSE NoDescriptor

SelectCase(field, v) ==
    IF OptionsTruthy(field.options)
    THEN [NoDescriptor EXCEPT !.kind = "select", !.name = field.id,
            !.label = field.label, !.disabled = field.disabled,
            !.value = IF isString(v) THEN v ELSE Str(""),
            !.options = field.options.items]
    ELSE NoDescriptor

\* Mutant of TextCase: value={value}, without the _.isString test
TextCase_RawValue(field, v) ==
    [NoDescriptor EXCEPT !.kind = "text", !.name = field.id,
        !.label = field.label, !.disabled = field.disabled,
        !.value = v, !.placeholder = field.placeholder]

\* Mutant of TextCase: the placeholder prop is not passed on
TextCase_NoPlaceholder(field, v) ==
    [NoDescriptor EXCEPT !.kind = "text", !.name = field.id,
        !.label = field.label, !.disabled = field.disabled,
        !.value = IF isString(v) THEN v ELSE Str("")]

TextCase(field, v) ==
    [NoDescriptor EXCEPT !.kind = "text", !.name = field.id,
        !.label = field.label, !.disabled = field.disabled,
        !.value = IF isString(v) THEN v ELSE Str(""),
        !.placeholder = field.placeholder]

\* Mutant of AtsConfigFieldPreview: the switch lacks `case "paragraph"`
AtsConfigFieldPreview_NoParagraph(field, v) ==
    CASE field.type = Str("checkbox") -> CheckboxCase(field, v)
      [] field.type \in {Str("header"), Str("subheader")} -> LabelCase(field)
      [] field.type = Str("select") -> SelectCase(field, v)
      [] field.type = Str("text") -> TextCase(field, v)
      [] OTHER -> assertIsNever

\* The switch over field.type; v is the component's `value` state
AtsConfigFieldPreview(field, v) ==
    CASE field.type = Str("checkbox") -> CheckboxCase(field, v)
      [] field.type \in {Str("header"), Str("subheader"), Str("paragraph")} ->
            LabelCase(field)
      [] field.type = Str("select") -> SelectCase(field, v)
      [] field.type = Str("text") -> TextCase(field, v)
      [] OTHER -> assertIsNever

\* Mutant of AtsConfigPreview: _.uniqBy(configFields, "id").map(...)
RECURSIVE UniqueById(_, _)
UniqueById(indices, configFields) ==
    IF indices = <<>> THEN <<>>
    ELSE LET i == Head(indices)
             rest == UniqueById(Tail(indices), configFields)
         IN IF \E j \in 1..(i - 1) : configFields[j].id = configFields[i].id
            THEN rest ELSE <<i>> \o rest
AtsConfigPreview_UniqueIds(configFields, values) ==
    LET kept == UniqueById([i \in 1..Len(configFields) |-> i], configFields)
    IN [k \in 1..Len(kept) |->
            AtsConfigFieldPreview(configFields[kept[k]], values[kept[k]])]

\* configFields.map(field => <AtsConfigFieldPreview key={field.id} field={field} />)
AtsConfigPreview(configFields, values) ==
    [i \in 1..Len(configFields) |-> AtsConfigFieldPreview(configFields[i], values[i])]

\* useState(field.value), and the effect setValue(field.value) on a new field
InitialValues(configFields) ==
    [i \in 1..Len(configFields) |-> configFields[i].value]

(***************************************************************************)
(* App.tsx: documents, fetching and the App component.                     *)
(***************************************************************************)
\* A body as response.json() returns it: nothing checks its shape
RawDocument(config, fieldsType, items) ==
    [config |-> config, fields |-> [t |-> fieldsType, items |-> items]]

Document(fields) == RawDocument("object", "array", fields)

\* useState<RefappAtsConfig>() starts undefined
NoConfig == [held |-> FALSE, doc |-> Document(<<>>)]
Held(doc) == [held |-> TRUE, doc |-> doc]

\* message ?? "An error occurred"
createConfigError(message) ==
    Document(<<Field(Str("error"), Str("text"),
        IF message.t \in {"undefined", "null"} THEN Str("An error occurred") ELSE message)>>)

(***************************************************************************)
(* Bounds of the model and the inputs the environment may supply.          *)
(***************************************************************************)
\* Fetches the effect may start in one run of the model
MaxFetches == 2
\* Clicks on Reset in one run of the model
MaxResets == 1
\* Clicks on Submit in one run of the model
MaxSubmits == 1
\* Fetches the effect of the App of unnamed/part_000 may start after the
\* one of the mount
MaxRefetches == 2
\* Longest config.fields the model renders
MaxFields == 3

HeaderField == Field(Str("h"), Str("header"), Str("Title"))
PickField ==
    [Field(Str("a"), Str("select"), Str("Pick")) EXCEPT
        !.options = Options(<<Option("o1", "One"), Option("o2", "Two")>>),
        !.value = Str("o1")]
TickField == [Field(Str("c"), Str("checkbox"), Str("Tick")) EXCEPT !.value = Str("yes")]
NameField == [Field(Str("n"), Str("text"), Str("Name")) EXCEPT !.placeholder = Str("type here")]
BogusField == Field(Str("b"), Str("bogus"), Str("X"))

\* Bodies a config URL may answer with: well-formed ones and malformed ones
GoodDocument == Document(<<HeaderField, PickField, TickField>>)
BogusDocument == Document(<<BogusField>>)
MixedDocument == Document(<<NameField, BogusField>>)
NoConfigDocument == RawDocument("undefined", "undefined", <<>>)
NoFieldsDocument == RawDocument("object", "undefined", <<>>)
FieldsNotArrayDocument == RawDocument("object", "string", <<>>)
NoIdDocument == Document(<<Field(Undefined, Str("text"), Str("T"))>>)
NoTypeDocument == Document(<<Field(Str("t"), Undefined, Str("T"))>>)
NoLabelDocument == Document(<<Field(Str("t"), Str("text"), Undefined)>>)

ResponseBodies ==
    {GoodDocument, BogusDocument, MixedDocument, NoConfigDocument, NoFieldsDocument,
     FieldsNotArrayDocument, NoIdDocument, NoTypeDocument, NoLabelDocument}

\* e.message of a rejected fetch()
FetchErrors == {Str("Failed to fetch")}
\* e.message of a response.json() that cannot parse the body
JsonErrors == {Str("Unexpected token <")}
\* config.message of a non-OK response of the live endpoint
ResponseMessages == {Str("Unauthorized"), Undefined}

\* What `await fetch(...)` and `await response.json()` meet: fetch() rejects,
\* the body is not JSON, or the body parses (with response.ok either way)
Rejected(e) == [kind |-> "rejected", ok |-> FALSE, message |-> e, body |-> NoConfigDocument]
NotJson(e) == [kind |-> "not-json", ok |-> FALSE, message |-> e, body |-> NoConfigDocument]
Json(ok, message, body) == [kind |-> "json", ok |-> ok, message |-> message, body |-> body]
Responses ==
    {Json(TRUE, Undefined, body) : body \in ResponseBodies}
    \cup {Json(FALSE, m, NoConfigDocument) : m \in ResponseMessages}
    \cup {Rejected(e) : e \in FetchErrors}
    \cup {NotJson(e) : e \in JsonErrors}

\* What the POST of submitLive meets: a JSON answer, OK or not (pretty is
\* JSON.stringify(json, undefined, 2)), a rejected fetch() or a body that is
\* not JSON (message is e.message)
SubmitResponses ==
    {[kind |-> "json", ok |-> TRUE, pretty |-> "{}", message |-> ""],
     [kind |-> "json", ok |-> FALSE, pretty |-> "{ \"message\": \"Unauthorized\" }",
      message |-> ""],
     [kind |-> "rejected", ok |-> FALSE, pretty |-> "", message |-> "Failed to fetch"],
     [kind |-> "not-json", ok |-> FALSE, pretty |-> "", message |-> "Unexpected token <"]}

\* What a user can type into a text control
TypedTexts == {Str("hello")}
\* Every value an onChange of a control can carry
EditValues == {Bool(TRUE), Bool(FALSE), Str("o1"), Str("o2")} \cup TypedTexts

\* Two of the seven names of configFiles
configFiles == {"Cost Centers.json", "Project Templates.json"}

configMethods == <<"sample", "live">>
defaultConfigMethod == configMethods[1]

\* Mutant of toConfigMethod: z.string().parse(value), without the catch
toConfigMethod_AnyString(v) == v

\* z.enum(configMethods).catch(defaultConfigMethod).parse(value)
toConfigMethod(v) ==
    IF \E i \in 1..Len(configMethods) : configMethods[i] = v THEN v ELSE defaultConfigMethod

\* z.enum(["", ...configFiles]).catch("").parse(value)
toConfigFile(v) == IF v \in configFiles \cup {""} THEN v ELSE ""

\* accordion.id.substring(7) for the ids the page gives its accordions
AccordionIds == {"config-sample", "config-live"}
substring7(id) ==
    CASE id = "config-sample" -> "sample"
      [] id = "config-live" -> "live"
      [] OTHER -> ""

\* Texts a user types into the endpoint inputs, and what new URL() makes of them
EndpointTexts == {"", "https://refapp.example/api"}
safeUrl(url) ==
    CASE url = "https://refapp.example/api" -> [ok |-> TRUE, pathname |-> "/api"]
      [] url = "refapp:" -> [ok |-> TRUE, pathname |-> ""]
      [] OTHER -> [ok |-> FALSE, pathname |-> ""]

SecretTexts == {"", "s3cret"}
DomainTexts == {"", "customer.example"}

\* The render of App: atsConfig.config.fields.map(...) under `atsConfig &&`
RenderThrows(doc) ==
    \/ doc.config # "object"
    \/ doc.fields.t # "array"
    \/ \E i \in 1..Len(doc.fields.items) :
          AtsConfigFieldPreview(doc.fields.items[i], doc.fields.items[i].value).kind = "never"

\* The fields the mapper is invoked on while rendering doc: all of them, or
\* those up to the one whose element makes the render throw
MapperInvocations(doc) ==
    IF doc.config # "object" \/ doc.fields.t # "array" THEN <<>>
    ELSE LET items == doc.fields.items
             bad == {i \in 1..Len(items) :
                        AtsConfigFieldPreview(items[i], items[i].value).kind = "never"}
             last == IF bad = {} THEN Len(items)
                     ELSE CHOOSE i \in bad : \A j \in bad : i <= j
         IN SubSeq(items, 1, last)

\* setAtsConfig(doc) followed by the render it causes
setAtsConfig(doc, request) ==
    /\ atsConfig' = Held(doc)
    /\ heldRequest' = request
    /\ crashed' = RenderThrows(doc)
    /\ value' = IF RenderThrows(doc) THEN <<>> ELSE InitialValues(doc.fields.items)
    /\ rendered' = IF RenderThrows(doc) THEN <<>>
                   ELSE AtsConfigPreview(doc.fields.items, InitialValues(doc.fields.items))

\* setAtsConfig(undefined)
clearAtsConfig ==
    /\ atsConfig' = NoConfig
    /\ heldRequest' = 0
    /\ value' = <<>>
    /\ rendered' = <<>>
    /\ UNCHANGED crashed

SourceComplete(method, file, configEndpoint, postEndpoint, atsSecret, customerSecret) ==
    \/ method = "sample" /\ file # ""
    \/ /\ method = "live"
       /\ safeUrl(configEndpoint).ok
       /\ safeUrl(configEndpoint).pathname # ""
       /\ safeUrl(postEndpoint).ok
       /\ safeUrl(postEndpoint).pathname # ""
       /\ atsSecret # ""
       /\ customerSecret # ""

\* The body of the useEffect, run with the state of the render that scheduled it
ConfigEffect(method, file, configEndpoint, postEndpoint, atsSecret, customerSecret) ==
    IF method = "sample" /\ file # ""
    THEN /\ fetchCount < MaxFetches
         /\ fetchCount' = fetchCount + 1
         /\ latestRequest' = fetchCount + 1
         /\ pendingFetches' = pendingFetches \cup
               {[request |-> fetchCount + 1, fn |-> "fetchFromGitHub", arg |-> file]}
         /\ UNCHANGED <<atsConfig, heldRequest, value, rendered, crashed>>
    ELSE IF SourceComplete(method, file, configEndpoint, postEndpoint, atsSecret, customerSecret)
    THEN /\ fetchCount < MaxFetches
         /\ fetchCount' = fetchCount + 1
         /\ latestRequest' = fetchCount + 1
         /\ pendingFetches' = pendingFetches \cup
               {[request |-> fetchCount + 1, fn |-> "fetchFromRefapp", arg |-> configEndpoint]}
         /\ UNCHANGED <<atsConfig, heldRequest, value, rendered, crashed>>
    ELSE /\ clearAtsConfig
         /\ latestRequest' = 0
         /\ UNCHANGED <<fetchCount, pendingFetches>>

\* handleChange: a click on the summary of one of the two accordions
handleChange(id) ==
    /\ ~crashed
    /\ toConfigMethod(substring7(id)) # configMethod
    /\ configMethod' = toConfigMethod(substring7(id))
    /\ ConfigEffect(toConfigMethod(substring7(id)), atsConfigFile, liveConfigEndpoint, livePostEndpoint,
                    liveAtsSecret, liveCustomerSecret)
    /\ UNCHANGED <<atsConfigFile, liveConfigEndpoint, livePostEndpoint, liveAtsSecret,
                   liveCustomerSecret, liveCustomerDomain, submitResults, resetTrigger>>
    /\ UNCHANGED <<schemaVars, submitVars, lastSettled>>

\* onChange of the sample-file Select
setAtsConfigFile(f) ==
    /\ ~crashed
    /\ configMethod = "sample"
    /\ toConfigFile(f) # atsConfigFile
    /\ atsConfigFile' = toConfigFile(f)
    /\ ConfigEffect(configMethod, toConfigFile(f), liveConfigEndpoint, livePostEndpoint,
                    liveAtsSecret, liveCustomerSecret)
    /\ UNCHANGED <<configMethod, liveConfigEndpoint, livePostEndpoint, liveAtsSecret,
                   liveCustomerSecret, liveCustomerDomain, submitResults, resetTrigger>>
    /\ UNCHANGED <<schemaVars, submitVars, lastSettled>>

\* onChange of the "Configuration Endpoint" input
setLiveConfigEndpoint(text) ==
    /\ ~crashed
    /\ configMethod = "live"
    /\ text # liveConfigEndpoint
    /\ liveConfigEndpoint' = text
    /\ ConfigEffect(configMethod, atsConfigFile, text, livePostEndpoint,
                    liveAtsSecret, liveCustomerSecret)
    /\ UNCHANGED <<configMethod, atsConfigFile, livePostEndpoint, liveAtsSecret,
                   liveCustomerSecret, liveCustomerDomain, submitResults, resetTrigger>>
    /\ UNCHANGED <<schemaVars, submitVars, lastSettled>>

\* onChange of the "POST Endpoint" input: not a dependency of the effect
setLivePostEndpoint(text) ==
    /\ ~crashed
    /\ configMethod = "live"
    /\ text # livePostEndpoint
    /\ livePostEndpoint' = text
    /\ UNCHANGED <<configMethod, atsConfigFile, atsConfig, liveConfigEndpoint, liveAtsSecret,
                   liveCustomerSecret, liveCustomerDomain, submitResults, resetTrigger,
                   value, rendered, pendingFetches, fetchCount, latestRequest, heldRequest,
                   crashed>>
    /\ UNCHANGED <<schemaVars, submitVars, lastSettled>>

\* onChange of the "ATS secret" input
setLiveAtsSecret(text) ==
    /\ ~crashed
    /\ configMethod = "live"
    /\ text # liveAtsSecret
    /\ liveAtsSecret' = text
    /\ ConfigEffect(configMethod, atsConfigFile, liveConfigEndpoint, livePostEndpoint,
                    text, liveCustomerSecret)
    /\ UNCHANGED <<configMethod, atsConfigFile, liveConfigEndpoint, livePostEndpoint,
                   liveCustomerSecret, liveCustomerDomain, submitResults, resetTrigger>>
    /\ UNCHANGED <<schemaVars, submitVars, lastSettled>>

\* onChange of the "Customer secret" input
setLiveCustomerSecret(text) ==
    /\ ~crashed
    /\ configMethod = "live"
    /\ text # liveCustomerSecret
    /\ liveCustomerSecret' = text
    /\ ConfigEffect(configMethod, atsConfigFile, liveConfigEndpoint, livePostEndpoint,
                    liveAtsSecret, text)
    /\ UNCHANGED <<configMethod, atsConfigFile, liveConfigEndpoint, livePostEndpoint,
                   liveAtsSecret, liveCustomerDomain, submitResults, resetTrigger>>
    /\ UNCHANGED <<schemaVars, submitVars, lastSettled>>

\* onChange of the "Customer email domain" input: not a dependency of the effect
setLiveCustomerDomain(text) ==
    /\ ~crashed
    /\ configMethod = "live"
    /\ text # liveCustomerDomain
    /\ liveCustomerDomain' = text
    /\ UNCHANGED <<configMethod, atsConfigFile, atsConfig, liveConfigEndpoint, livePostEndpoint,
                   liveAtsSecret, liveCustomerSecret, submitResults, resetTrigger,
                   value, rendered, pendingFetches, fetchCount, latestRequest, heldRequest,
                   crashed>>
    /\ UNCHANGED <<schemaVars, submitVars, lastSettled>>

\* The Reset button of the rendered form
onReset ==
    /\ ~crashed
    /\ atsConfig.held
    /\ resetTrigger < MaxResets
    /\ submitResults' = ""
    /\ resetTrigger' = resetTrigger + 1
    /\ ConfigEffect(configMethod, atsConfigFile, liveConfigEndpoint, livePostEndpoint,
                    liveAtsSecret, liveCustomerSecret)
    /\ UNCHANGED <<configMethod, atsConfigFile, liveConfigEndpoint, livePostEndpoint,
                   liveAtsSecret, liveCustomerSecret, liveCustomerDomain>>
    /\ UNCHANGED <<schemaVars, submitVars, lastSettled>>

\* The promise an async function returns, once settled
Fulfilled(v) == [state |-> "fulfilled", value |-> v]
RejectedPromise == [state |-> "rejected", value |-> NoConfigDocument]

\* fetchFromGitHub: the parsed body whatever response.ok is, or the error
\* document of the catch
fetchFromGitHubValue(response) ==
    IF response.kind = "json"
    THEN Fulfilled(response.body)
    ELSE Fulfilled(createConfigError(response.message))

\* Mutant of fetchFromRefappValue: without `if (!response.ok)`
fetchFromRefappValue_IgnoresOk(response) ==
    IF response.kind = "json"
    THEN Fulfilled(response.body)
    ELSE Fulfilled(createConfigError(response.message))

\* fetchFromRefapp: the parsed body, the error document of a non-OK response
\* (config.message), or the error document of the catch
fetchFromRefappValue(response) ==
    IF response.kind = "json"
    THEN IF ~response.ok
         THEN Fulfilled(createConfigError(response.message))
         ELSE Fulfilled(response.body)
    ELSE Fulfilled(createConfigError(response.message))

NoneSettled == [request |-> 0, fn |-> "", kind |-> "none", ok |-> FALSE,
                message |-> Undefined, state |-> "none"]

\* fetchFromX(...).then((config) => setAtsConfig(config))
FetchSettles(r, response, promise) ==
    /\ pendingFetches' = pendingFetches \ {r}
    /\ lastSettled' = [request |-> r.request, fn |-> r.fn, kind |-> response.kind,
                       ok |-> response.ok, message |-> response.message,
                       state |-> promise.state]
    /\ IF crashed \/ promise.state = "rejected"
       THEN UNCHANGED <<atsConfig, heldRequest, value, rendered, crashed>>
       ELSE setAtsConfig(promise.value, r.request)
    /\ UNCHANGED <<configMethod, atsConfigFile, liveConfigEndpoint, livePostEndpoint,
                   liveAtsSecret, liveCustomerSecret, liveCustomerDomain, submitResults,
                   resetTrigger, fetchCount, latestRequest>>
    /\ UNCHANGED <<schemaVars, submitVars>>

\* The promise of fetchFromGitHub settles
fetchFromGitHub ==
    \E r \in pendingFetches, response \in Responses :
        /\ r.fn = "fetchFromGitHub"
        /\ FetchSettles(r, response, fetchFromGitHubValue(response))

\* The promise of fetchFromRefapp settles
fetchFromRefapp ==
    \E r \in pendingFetches, response \in Responses :
        /\ r.fn = "fetchFromRefapp"
        /\ FetchSettles(r, response, fetchFromRefappValue(response))

\* onChange of a rendered control: setValue(e.target.checked / e.target.value)
EditControl(i, v) ==
    /\ ~crashed
    /\ atsConfig.held
    /\ i \in 1..Len(value)
    /\ LET field == atsConfig.doc.fields.items[i]
           control == AtsConfigFieldPreview(field, value[i])
       IN /\ ~Truthy(control.disabled)
          /\ \/ control.kind = "checkbox" /\ v \in {Bool(TRUE), Bool(FALSE)}
             \/ control.kind = "text" /\ v \in TypedTexts
             \/ control.kind = "select" /\ \E k \in 1..Len(control.options) : v = control.options[k].id
          /\ v # value[i]
    /\ value' = [value EXCEPT ![i] = v]
    /\ rendered' = AtsConfigPreview(atsConfig.doc.fields.items, [value EXCEPT ![i] = v])
    /\ UNCHANGED <<configMethod, atsConfigFile, atsConfig, liveConfigEndpoint, livePostEndpoint,
                   liveAtsSecret, liveCustomerSecret, liveCustomerDomain, submitResults,
                   resetTrigger, pendingFetches, fetchCount, latestRequest, heldRequest, crashed>>
    /\ UNCHANGED <<schemaVars, submitVars, lastSettled>>

\* new FormData(form), the HTML entry list of the form: a control is left
\* out when it is disabled, has no name, or is a checkbox that is not checked
Successful(control) ==
    /\ control.kind \in {"checkbox", "select", "text"}
    /\ ~Truthy(control.disabled)
    /\ isString(control.name)
    /\ control.name.s # ""
    /\ control.kind = "checkbox" => control.value = Bool(TRUE)

\* The entry of a control: a checkbox without a value attribute submits "on"
FormDataEntry(control) ==
    <<control.name.s, IF control.kind = "checkbox" THEN Str("on") ELSE control.value>>

FormData(form) ==
    LET controls == SelectSeq(form, Successful)
    IN [i \in 1..Len(controls) |-> FormDataEntry(controls[i])]

\* lodash fromPairs: an object with one property per distinct key, in the
\* order the keys first appear, each holding the value of its last pair
fromPairs(pairs) ==
    LET first == SelectSeq([i \in 1..Len(pairs) |-> i],
                     LAMBDA i : \A j \in 1..(i - 1) : pairs[j][1] # pairs[i][1])
        last(k) == CHOOSE i \in 1..Len(pairs) :
                        /\ pairs[i][1] = k
                        /\ \A j \in 1..Len(pairs) : pairs[j][1] = k => j <= i
    IN [n \in 1..Len(first) |-> <<pairs[first[n]][1], pairs[last(pairs[first[n]][1])][2]>>]

\* The Submit button, rendered only when onSubmit is passed (configMethod is
\* "live"): onSubmit(new FormData(document.forms[0])), that is handleSubmit
handleSubmit ==
    /\ ~crashed
    /\ atsConfig.held
    /\ configMethod = "live"
    /\ submitCount < MaxSubmits
    /\ submitCount' = submitCount + 1
    /\ pendingSubmits' = pendingSubmits \cup
          {[submit |-> submitCount + 1,
            postEndpoint |-> livePostEndpoint,
            atsSecret |-> liveAtsSecret,
            customerSecret |-> liveCustomerSecret,
            customerDomain |-> liveCustomerDomain,
            form |-> rendered,
            dataObject |-> fromPairs(FormData(rendered))]}
    /\ UNCHANGED <<configMethod, atsConfigFile, atsConfig, liveConfigEndpoint, livePostEndpoint,
                   liveAtsSecret, liveCustomerSecret, liveCustomerDomain, submitResults,
                   resetTrigger, value, rendered, pendingFetches, fetchCount, latestRequest,
                   heldRequest, crashed, lastSettled>>
    /\ UNCHANGED schemaVars

\* Mutant of submitLiveValue: without the try/catch
submitLiveValue_NoCatch(response) ==
    IF response.kind = "json"
    THEN [state |-> "fulfilled", value |-> response.pretty]
    ELSE [state |-> "rejected", value |-> ""]

\* submitLive: the pretty-printed JSON answer, whatever response.ok is, or
\* the message of what the catch caught
submitLiveValue(response) ==
    IF response.kind = "json"
    THEN [state |-> "fulfilled", value |-> response.pretty]
    ELSE [state |-> "fulfilled", value |-> response.message]

\* The promise of submitLive settles: .then((result) => setSubmitResults(result))
submitLive ==
    \E p \in pendingSubmits, response \in SubmitResponses :
        /\ pendingSubmits' = pendingSubmits \ {p}
        /\ submitResults' = IF crashed \/ submitLiveValue(response).state = "rejected"
                            THEN submitResults
                            ELSE submitLiveValue(response).value
        /\ UNCHANGED <<configMethod, atsConfigFile, atsConfig, liveConfigEndpoint,
                       livePostEndpoint, liveAtsSecret, liveCustomerSecret, liveCustomerDomain,
                       resetTrigger, value, rendered, pendingFetches, fetchCount,
                       latestRequest, heldRequest, crashed, submitCount, lastSettled>>
        /\ UNCHANGED schemaVars

Init ==
    /\ configMethod = defaultConfigMethod
    /\ atsConfigFile = ""
    /\ atsConfig = NoConfig
    /\ liveConfigEndpoint = ""
    /\ livePostEndpoint = ""
    /\ liveAtsSecret = ""
    /\ liveCustomerSecret = ""
    /\ liveCustomerDomain = ""
    /\ submitResults = ""
    /\ resetTrigger = 0
    /\ value = <<>>
    /\ rendered = <<>>
    /\ pendingFetches = {}
    /\ fetchCount = 0
    /\ latestRequest = 0
    /\ heldRequest = 0
    /\ crashed = FALSE
    /\ pendingSubmits = {}
    /\ submitCount = 0
    /\ lastSettled = NoneSettled
    /\ schemaInput = Undefined
    /\ schemaOutput = Undefined
    /\ reactSampleOutput = Undefined

Next ==
    \/ \E id \in AccordionIds : handleChange(id)
    \/ \E f \in configFiles : setAtsConfigFile(f)
    \/ \E text \in EndpointTexts : setLiveConfigEndpoint(text)
    \/ \E text \in EndpointTexts : setLivePostEndpoint(text)
    \/ \E text \in SecretTexts : setLiveAtsSecret(text)
    \/ \E text \in SecretTexts : setLiveCustomerSecret(text)
    \/ \E text \in DomainTexts : setLiveCustomerDomain(text)
    \/ onReset
    \/ fetchFromGitHub
    \/ fetchFromRefapp
    \/ \E i \in 1..MaxFields, v \in EditValues : EditControl(i, v)

\* Choosing the source of the configuration, fetching it and showing it;
\* submitting the form that is shown is SpecForm below
Spec == Init /\ [][Next]_vars

\* The same App with the form left alone: the handlers that change the
\* source of the configuration, and the fetches they start
NextSource ==
    \/ \E id \in AccordionIds : handleChange(id)
    \/ \E f \in configFiles : setAtsConfigFile(f)
    \/ \E text \in EndpointTexts : setLiveConfigEndpoint(text)
    \/ \E text \in EndpointTexts : setLivePostEndpoint(text)
    \/ \E text \in SecretTexts : setLiveAtsSecret(text)
    \/ \E text \in SecretTexts : setLiveCustomerSecret(text)
    \/ onReset
    \/ fetchFromGitHub
    \/ fetchFromRefapp

SpecSource == Init /\ [][NextSource]_vars

(***************************************************************************)
(* The mapper on its own: AtsConfigPreview mounted on any field list.      *)
(***************************************************************************)
ValueInputs ==
    {Undefined, Null, Str(""), Str("o1"), Str("zzz"), Str("yes"), Bool(TRUE), Bool(FALSE),
     Num(1)}
OptionInputs ==
    {NoOptions, [t |-> "null", items |-> <<>>], Options(<<>>),
     Options(<<Option("o1", "One")>>), Options(<<Option("o1", "One"), Option("o2", "Two")>>)}
PlaceholderInputs == {Undefined, Str("type here")}
DisabledInputs == {Undefined, Bool(TRUE)}
MarkdownInputs == {Undefined, Null, Str(""), Str("**bold**")}
HtmlInputs == {Undefined, Str("<b>bold</b>")}
ClassInputs ==
    {Undefined, Str("default"), Str("info"), Str("warning"), Str("error"), Str("success")}

\* HtmlConfigFieldType without "hidden", and refappLabelFieldTypes
InteractiveTypes == {Str("select"), Str("checkbox"), Str("text")}
refappLabelFieldTypes == {Str("header"), Str("subheader"), Str("paragraph")}
\* AtsConfigField["type"]
RefappConfigFieldType == InteractiveTypes \cup refappLabelFieldTypes

InteractiveInputs ==
    {[Field(Str("a"), t, Str("L")) EXCEPT
        !.value = v, !.options = o, !.placeholder = p, !.disabled = d] :
        t \in InteractiveTypes, v \in ValueInputs, o \in OptionInputs,
        p \in PlaceholderInputs, d \in DisabledInputs}

LabelInputs ==
    {[Field(Str("a"), t, Str("L")) EXCEPT
        !.labelMarkdown = m, !.labelHtml = h, !.labelClass = c] :
        t \in refappLabelFieldTypes, m \in MarkdownInputs, h \in HtmlInputs,
        c \in ClassInputs}

\* Label fields carrying the attributes of interactive fields: the type
\* HtmlConfigField declares value, placeholder, options and disabled for
\* every field type
StrayInputs ==
    {[Field(Str("a"), t, Str("L")) EXCEPT
        !.value = v, !.options = o, !.placeholder = p, !.disabled = d] :
        t \in refappLabelFieldTypes, v \in {Undefined, Str("o1")},
        o \in {NoOptions, Options(<<Option("o1", "One")>>)},
        p \in PlaceholderInputs, d \in DisabledInputs}

UnknownInputs == {BogusField, Field(Str("x"), Str("hidden"), Str("H"))}

\* Fields of the longer lists: ids repeat, labels tell the fields apart
OrderInputs ==
    {Field(Str("a"), Str("select"), Str("L1")),
     [Field(Str("a"), Str("select"), Str("L2")) EXCEPT !.options = Options(<<Option("o1", "One")>>)],
     Field(Str("a"), Str("text"), Str("L3")),
     Field(Str("b"), Str("checkbox"), Str("L4")),
     Field(Str("b"), Str("header"), Str("L5"))}

FieldLists ==
    {<<f>> : f \in InteractiveInputs \cup LabelInputs \cup StrayInputs \cup UnknownInputs}
    \cup UNION {[1..n -> OrderInputs] : n \in 2..MaxFields}

\* App renders <AtsConfigPreview configFields={atsConfig.config.fields} />
RenderPreview(fields) ==
    /\ ~atsConfig.held
    /\ setAtsConfig(Document(fields), 0)
    /\ UNCHANGED <<configMethod, atsConfigFile, liveConfigEndpoint, livePostEndpoint,
                   liveAtsSecret, liveCustomerSecret, liveCustomerDomain, submitResults,
                   resetTrigger, pendingFetches, fetchCount, latestRequest>>
    /\ UNCHANGED <<schemaVars, submitVars, lastSettled>>

NextMapper ==
    \/ \E fields \in FieldLists : RenderPreview(fields)
    \/ \E i \in 1..MaxFields, v \in EditValues : EditControl(i, v)

SpecMapper == Init /\ [][NextMapper]_vars

(***************************************************************************)
(* The form of the live method: the settings are complete, the effect has  *)
(* started fetchFromRefapp, and the endpoint may answer with any field     *)
(* list; the user edits the controls and submits.                          *)
(***************************************************************************)
LiveEndpoint == "https://refapp.example/api"
LiveSecret == "s3cret"

InitForm ==
    /\ configMethod = "live"
    /\ atsConfigFile = ""
    /\ atsConfig = NoConfig
    /\ liveConfigEndpoint = LiveEndpoint
    /\ livePostEndpoint = LiveEndpoint
    /\ liveAtsSecret = LiveSecret
    /\ liveCustomerSecret = LiveSecret
    /\ liveCustomerDomain = ""
    /\ submitResults = ""
    /\ resetTrigger = 0
    /\ value = <<>>
    /\ rendered = <<>>
    /\ pendingFetches = {[request |-> 1, fn |-> "fetchFromRefapp", arg |-> LiveEndpoint]}
    /\ fetchCount = 1
    /\ latestRequest = 1
    /\ heldRequest = 0
    /\ crashed = FALSE
    /\ pendingSubmits = {}
    /\ submitCount = 0
    /\ lastSettled = NoneSettled
    /\ schemaInput = Undefined
    /\ schemaOutput = Undefined
    /\ reactSampleOutput = Undefined

\* The live endpoint answers 200 with a document of the given fields
LiveConfigArrives(fields) ==
    \E r \in pendingFetches :
        LET response == Json(TRUE, Undefined, Document(fields))
        IN FetchSettles(r, response, fetchFromRefappValue(response))

NextForm ==
    \/ \E fields \in FieldLists : LiveConfigArrives(fields)
    \/ \E i \in 1..MaxFields, v \in EditValues : EditControl(i, v)
    \/ handleSubmit
    \/ submitLive

SpecForm == InitForm /\ [][NextForm]_vars

\* The same form holding one interactive field: the document arrives, the
\* control is edited, Submit is clicked and the POST settles
NextSubmit ==
    \/ \E f \in InteractiveInputs : LiveConfigArrives(<<f>>)
    \/ \E v \in EditValues : EditControl(1, v)
    \/ handleSubmit
    \/ submitLive

SpecSubmit == InitForm /\ [][NextSubmit]_vars

(***************************************************************************)
(* The App of unnamed/part_000: one state, atsConfig, and an effect        *)
(* without a dependency list that fetches one fixed file.                  *)
(***************************************************************************)
SampleAppFile == "Cost Centers, existing project, Swedish.json"
\* What the URL of the file may answer with
SampleAppResponses ==
    Responses \cup {Json(TRUE, Undefined, Document(<<f>>)) : f \in OrderInputs}

\* After the mount: the first render has run the effect once
InitSampleApp ==
    /\ configMethod = defaultConfigMethod
    /\ atsConfigFile = ""
    /\ atsConfig = NoConfig
    /\ liveConfigEndpoint = ""
    /\ livePostEndpoint = ""
    /\ liveAtsSecret = ""
    /\ liveCustomerSecret = ""
    /\ liveCustomerDomain = ""
    /\ submitResults = ""
    /\ resetTrigger = 0
    /\ value = <<>>
    /\ rendered = <<>>
    /\ pendingFetches = {[request |-> 1, fn |-> "fetch", arg |-> SampleAppFile]}
    /\ fetchCount = 1
    /\ latestRequest = 1
    /\ heldRequest = 0
    /\ crashed = FALSE
    /\ pendingSubmits = {}
    /\ submitCount = 0
    /\ lastSettled = NoneSettled
    /\ schemaInput = Undefined
    /\ schemaOutput = Undefined
    /\ reactSampleOutput = Undefined

\* fetch(...).then(response => response.json().then(config => setAtsConfig(config))):
\* nothing catches, so a failure leaves the state alone; setAtsConfig renders
\* App again, and the effect, having no dependency list, runs after that
\* render as after every other and starts the next fetch
SampleAppFetchSettles ==
    \E r \in pendingFetches, response \in SampleAppResponses :
        /\ lastSettled' = [request |-> r.request, fn |-> r.fn, kind |-> response.kind,
                           ok |-> response.ok, message |-> response.message,
                           state |-> IF response.kind = "json" THEN "fulfilled" ELSE "rejected"]
        /\ IF response.kind = "json" /\ ~crashed
           THEN /\ setAtsConfig(response.body, r.request)
                /\ IF RenderThrows(response.body)
                   THEN /\ pendingFetches' = pendingFetches \ {r}
                        /\ UNCHANGED <<fetchCount, latestRequest>>
                   ELSE /\ fetchCount < 1 + MaxRefetches
                        /\ fetchCount' = fetchCount + 1
                        /\ latestRequest' = fetchCount + 1
                        /\ pendingFetches' = (pendingFetches \ {r}) \cup
                              {[request |-> fetchCount + 1, fn |-> "fetch", arg |-> SampleAppFile]}
           ELSE /\ pendingFetches' = pendingFetches \ {r}
                /\ UNCHANGED <<atsConfig, heldRequest, value, rendered, crashed, fetchCount,
                               latestRequest>>
        /\ UNCHANGED <<configMethod, atsConfigFile, liveConfigEndpoint, livePostEndpoint,
                       liveAtsSecret, liveCustomerSecret, liveCustomerDomain, submitResults,
                       resetTrigger>>
        /\ UNCHANGED <<schemaVars, submitVars>>

NextSampleApp ==
    \/ SampleAppFetchSettles
    \/ \E i \in 1..MaxFields, v \in EditValues : EditControl(i, v)

SpecSampleApp == InitSampleApp /\ [][NextSampleApp]_vars

(***************************************************************************)
(* The zod schemas of the partner-event payload (unnamed/part_001).        *)
(* A payload is a function from attribute paths to JSON values; an omitted *)
(* key reads as undefined, and arrays and objects are opaque values.       *)
(***************************************************************************)
ArrayValue == [t |-> "array", s |-> "", b |-> FALSE, n |-> 0]
ObjectValue == [t |-> "object", s |-> "", b |-> FALSE, n |-> 0]

atsResultStatusValues == {"sending", "sent", "pending", "completed", "failed"}

\* Does the inner zod type accept v?
Accepts(type, v) ==
    CASE type = "string" -> v.t = "string"
      [] type = "boolean" -> v.t = "boolean"
      [] type = "numberOrString" -> v.t \in {"number", "string"}
      [] type = "status" -> v.t = "string" /\ v.s \in atsResultStatusValues
      [] type = "array" -> v.t = "array"
      [] type = "record" -> v.t = "object"
      [] type = "object" -> v.t = "object"
      [] OTHER -> FALSE

Issue == [ok |-> FALSE, value |-> Undefined]
Parsed(v) == [ok |-> TRUE, value |-> v]

\* Mutant of required: an absent attribute passes, as with .optional()
required_AbsentPasses(type, v) ==
    IF v = Undefined \/ Accepts(type, v) THEN Parsed(v) ELSE Issue

\* z.string(), z.union([...]), a nested z.object as an attribute: required
required(type, v) == IF Accepts(type, v) THEN Parsed(v) ELSE Issue

\* t.optional(): undefined passes, null does not
optional(type, v) == IF v = Undefined THEN Parsed(Undefined) ELSE required(type, v)

\* t.nullish(): undefined and null both pass, each as itself
nullish(type, v) == IF v \in {Undefined, Null} THEN Parsed(v) ELSE required(type, v)

\* t.nullish().transform((v) => (v === null ? undefined : v))
optionalWithNull(type, v) ==
    LET r == nullish(type, v)
    IN IF r.ok /\ r.value = Null THEN Parsed(Undefined) ELSE r

\* The attributes of atsPartnerEventPayloadSchema, by path, as declared
atsPartnerEventPayloadSchema ==
    ("partner-event" :> [decl |-> "required", type |-> "object"]) @@
    ("partner-event.company" :> [decl |-> "required", type |-> "object"]) @@
    ("partner-event.company.name" :> [decl |-> "optionalWithNull", type |-> "string"]) @@
    ("partner-event.company.uuid" :> [decl |-> "required", type |-> "string"]) @@
    ("partner-event.company.ats-url" :> [decl |-> "optionalWithNull", type |-> "string"]) @@
    ("partner-event.candidate" :> [decl |-> "required", type |-> "object"]) @@
    ("partner-event.candidate.id" :> [decl |-> "required", type |-> "numberOrString"]) @@
    ("partner-event.candidate.first-name" :> [decl |-> "required", type |-> "string"]) @@
    ("partner-event.candidate.last-name" :> [decl |-> "required", type |-> "string"]) @@
    ("partner-event.candidate.email" :> [decl |-> "optionalWithNull", type |-> "string"]) @@
    ("partner-event.candidate.phone" :> [decl |-> "optionalWithNull", type |-> "string"]) @@
    ("partner-event.candidate.country-calling-code" :> [decl |-> "optionalWithNull", type |-> "string"]) @@
    ("partner-event.candidate.referees" :> [decl |-> "optionalWithNull", type |-> "array"]) @@
    ("partner-event.candidate.recruiter" :> [decl |-> "required", type |-> "object"]) @@
    ("partner-event.candidate.recruiter.name" :> [decl |-> "optionalWithNull", type |-> "string"]) @@
    ("partner-event.candidate.recruiter.first-name" :> [decl |-> "optionalWithNull", type |-> "string"]) @@
    ("partner-event.candidate.recruiter.last-name" :> [decl |-> "optionalWithNull", type |-> "string"]) @@
    ("partner-event.candidate.recruiter.email" :> [decl |-> "required", type |-> "string"]) @@
    ("partner-event.candidate.recruiter.phone" :> [decl |-> "optionalWithNull", type |-> "string"]) @@
    ("partner-event.candidate.recruiter.country-calling-code" :> [decl |-> "optionalWithNull", type |-> "string"]) @@
    ("partner-event.candidate.recruiter.ats-url" :> [decl |-> "optionalWithNull", type |-> "string"]) @@
    ("partner-event.candidate.job" :> [decl |-> "required", type |-> "object"]) @@
    ("partner-event.candidate.job.id" :> [decl |-> "required", type |-> "numberOrString"]) @@
    ("partner-event.candidate.job.title" :> [decl |-> "required", type |-> "string"]) @@
    ("partner-event.candidate.job.private-title" :> [decl |-> "optionalWithNull", type |-> "boolean"]) @@
    ("partner-event.candidate.job.client-name" :> [decl |-> "optionalWithNull", type |-> "string"]) @@
    ("partner-event.candidate.job.recruiting-team" :> [decl |-> "optionalWithNull", type |-> "array"]) @@
    ("partner-event.candidate.job.ats-url" :> [decl |-> "optionalWithNull", type |-> "string"]) @@
    ("partner-event.candidate.job.ats-public-key" :> [decl |-> "optionalWithNull", type |-> "string"]) @@
    ("partner-event.candidate.job.ats-name" :> [decl |-> "optionalWithNull", type |-> "string"]) @@
    ("partner-event.candidate.job.description" :> [decl |-> "optionalWithNull", type |-> "string"]) @@
    ("partner-event.candidate.language" :> [decl |-> "optionalWithNull", type |-> "string"]) @@
    ("partner-event.candidate.ats-url" :> [decl |-> "optionalWithNull", type |-> "string"]) @@
    ("partner-event.partner-result" :> [decl |-> "required", type |-> "object"]) @@
    ("partner-event.partner-result.id" :> [decl |-> "required", type |-> "string"]) @@
    ("partner-event.partner-result.status" :> [decl |-> "optional", type |-> "status"]) @@
    ("partner-event.partner-result.update-url" :> [decl |-> "optionalWithNull", type |-> "string"]) @@
    ("partner-event.webhook-data" :> [decl |-> "optionalWithNull", type |-> "record"])

Attributes == DOMAIN atsPartnerEventPayloadSchema

\* atsPartnerEventPayloadSchema of react-sample/src/lib/ats-types.ts: the same
\* attributes, declared without optionalWithNull: company.name,
\* candidate.email and partner-result.status are required (z.string(),
\* z.enum), and every other optional attribute is z.ostring(), z.oboolean()
\* or .optional()
reactSamplePayloadSchema ==
    [a \in Attributes |->
        IF a \in {"partner-event.company.name", "partner-event.candidate.email",
                  "partner-event.partner-result.status"}
        THEN [decl |-> "required", type |-> atsPartnerEventPayloadSchema[a].type]
        ELSE IF atsPartnerEventPayloadSchema[a].decl = "optionalWithNull"
        THEN [decl |-> "optional", type |-> atsPartnerEventPayloadSchema[a].type]
        ELSE atsPartnerEventPayloadSchema[a]]

ParseAttribute(schema, a, v) ==
    CASE schema[a].decl = "required" -> required(schema[a].type, v)
      [] schema[a].decl = "optional" -> optional(schema[a].type, v)
      [] schema[a].decl = "optionalWithNull" -> optionalWithNull(schema[a].type, v)

NotParsed == [ok |-> FALSE, data |-> [a \in Attributes |-> Undefined]]

\* schema.safeParse(payload): every attribute must parse; the data are the parsed values
safeParse(schema, payload) ==
    IF \A a \in Attributes : ParseAttribute(schema, a, payload[a]).ok
    THEN [ok |-> TRUE, data |-> [a \in Attributes |-> ParseAttribute(schema, a, payload[a]).value]]
    ELSE NotParsed

\* A payload with every required attribute and no optional one
BasePayload ==
    [a \in Attributes |->
        IF atsPartnerEventPayloadSchema[a].decl # "required" THEN Undefined
        ELSE IF atsPartnerEventPayloadSchema[a].type = "object" THEN ObjectValue
        ELSE Str("x")]

AttributeInputs ==
    {Undefined, Null, Str("x"), Str("sent"), Num(7), Bool(TRUE), ArrayValue, ObjectValue}

\* The base payload with the three attributes only the schema of
\* react-sample/src/lib requires
ReactSampleBasePayload ==
    [BasePayload EXCEPT !["partner-event.company.name"] = Str("x"),
                        !["partner-event.candidate.email"] = Str("x"),
                        !["partner-event.partner-result.status"] = Str("sent")]

\* Payloads that differ from a base one in at most one attribute
PayloadInputs ==
    {[BasePayload EXCEPT ![a] = v] : a \in Attributes, v \in AttributeInputs}
    \cup {[ReactSampleBasePayload EXCEPT ![a] = v] : a \in Attributes, v \in AttributeInputs}

\* A partner sends a payload
ReceivePayload(payload) ==
    /\ schemaInput = Undefined
    /\ schemaInput' = payload
    /\ UNCHANGED <<schemaOutput, reactSampleOutput>>
    /\ UNCHANGED appVars

\* atsPartnerEventPayloadSchema.safeParse(payload)
ParsePayload ==
    /\ schemaInput # Undefined
    /\ schemaOutput = Undefined
    /\ schemaOutput' = safeParse(atsPartnerEventPayloadSchema, schemaInput)
    /\ UNCHANGED <<schemaInput, reactSampleOutput>>
    /\ UNCHANGED appVars

\* atsPartnerEventPayloadSchema.safeParse(payload), with the schema of
\* react-sample/src/lib/ats-types.ts
ParsePayloadReactSample ==
    /\ schemaInput # Undefined
    /\ reactSampleOutput = Undefined
    /\ reactSampleOutput' = safeParse(reactSamplePayloadSchema, schemaInput)
    /\ UNCHANGED <<schemaInput, schemaOutput>>
    /\ UNCHANGED appVars

NextSchema ==
    \/ \E payload \in PayloadInputs : ReceivePayload(payload)
    \/ ParsePayload
    \/ ParsePayloadReactSample

SpecSchema == Init /\ [][NextSchema]_vars

(***************************************************************************)
(* Properties.                                                             *)
(***************************************************************************)
\* The form is on screen: a document is held and its render did not throw
FormShown == atsConfig.held /\ ~crashed
\* The fields of the held document
configFields == atsConfig.doc.fields.items
\* No control has been edited since the document was mounted
Untouched == value = InitialValues(configFields)

HasUnknownType(doc) ==
    /\ doc.config = "object"
    /\ doc.fields.t = "array"
    /\ \E i \in 1..Len(doc.fields.items) : doc.fields.items[i].type \notin RefappConfigFieldType

WellFormed(doc) ==
    /\ doc.config = "object"
    /\ doc.fields.t = "array"
    /\ \A i \in 1..Len(doc.fields.items) :
          /\ doc.fields.items[i].id # Undefined
          /\ doc.fields.items[i].type # Undefined
          /\ doc.fields.items[i].label # Undefined

\* C1: once no fetch is in flight, the held document is the one fetched for
\* the most recent source change (the last fetch the effect started).
C1_LastWriteWins ==
    (pendingFetches = {} /\ latestRequest # 0 /\ ~crashed) => heldRequest = latestRequest

\* C2: a document with a field of unknown type is rejected before the mapper
\* is invoked on any of its fields, and no control is produced for it.
C2_UnknownTypeRejected ==
    (atsConfig.held /\ HasUnknownType(atsConfig.doc)) =>
        (MapperInvocations(atsConfig.doc) = <<>> /\ rendered = <<>>)

\* C3: a document whose config or config.fields is missing or not a
\* sequence, or with a field lacking id, type or label, is never held.
C3_MalformedNeverHeld == atsConfig.held => WellFormed(atsConfig.doc)

\* C4: for every optional attribute A, a payload with A: null parses, and to
\* the same result as the payload with A omitted.
C4_NullIsAbsent ==
    (schemaInput # Undefined /\ schemaOutput # Undefined) =>
        \A a \in Attributes :
            (atsPartnerEventPayloadSchema[a].decl # "required" /\ schemaInput[a] = Null) =>
                schemaOutput =
                    safeParse(atsPartnerEventPayloadSchema, [schemaInput EXCEPT ![a] = Undefined])

\* C5: for every field list whose types are all in the union, the render
\* does not throw and every field yields an element of one of the switch
\* branches, never the value of assertIsNever.
C5_MapperTotal ==
    (atsConfig.held /\ WellFormed(atsConfig.doc) /\ ~HasUnknownType(atsConfig.doc)) =>
        /\ ~crashed
        /\ Len(rendered) = Len(configFields)
        /\ \A i \in 1..Len(rendered) :
              /\ rendered[i].kind \in {"checkbox", "select", "text", "typography", "markdown", "null"}
              /\ rendered[i].variant # "never"
C5_Witness ==
    /\ FormShown
    /\ Len(configFields) = 1
    /\ configFields[1].type = Str("paragraph")
    /\ rendered[1].kind = "typography"
    /\ rendered[1].variant = "body1"

\* C6: the rendered sequence has one element per field, the i-th made from
\* the i-th field, also when ids repeat; the only fields that render to
\* nothing are select fields without options.
C6_OrderPreserved ==
    FormShown =>
        /\ Len(rendered) = Len(configFields)
        /\ \A i \in 1..Len(configFields) :
              IF rendered[i].kind = "null"
              THEN /\ configFields[i].type = Str("select")
                   /\ configFields[i].options.items = <<>>
              ELSE /\ rendered[i].label \in {configFields[i].label, configFields[i].labelMarkdown}
                   /\ configFields[i].type \in InteractiveTypes =>
                         /\ rendered[i].name = configFields[i].id
                         /\ Str(rendered[i].kind) = configFields[i].type
C6_Witness ==
    /\ FormShown
    /\ Len(configFields) = 3
    /\ configFields[2].id = configFields[3].id
    /\ configFields[2].label = Str("L3")
    /\ configFields[3].label = Str("L2")
    /\ configFields[1].label = Str("L4")
    /\ rendered[1].label = Str("L4")
    /\ rendered[2].label = Str("L3")
    /\ rendered[3].label = Str("L2")

\* C7 as claimed: the initial value of a select control is the field's value
\* if and only if it is the id of one of the options, and "" otherwise.
C7_SelectInitialMatchesOption ==
    (FormShown /\ Untouched) =>
        \A i \in 1..Len(configFields) :
            (configFields[i].type = Str("select") /\ rendered[i].kind = "select") =>
                rendered[i].value =
                    IF \E k \in 1..Len(configFields[i].options.items) :
                            configFields[i].options.items[k].id = configFields[i].value
                    THEN configFields[i].value
                    ELSE Str("")

\* C7 as amended: the initial value of a select control is the field's value
\* whenever that is a string, whether or not it is the id of an option, and
\* "" when it is absent or not a string.
C7_SelectInitialIsString ==
    (FormShown /\ Untouched) =>
        \A i \in 1..Len(configFields) :
            (configFields[i].type = Str("select") /\ rendered[i].kind = "select") =>
                /\ configFields[i].value.t = "string" => rendered[i].value = configFields[i].value
                /\ configFields[i].value.t # "string" => rendered[i].value = Str("")
C7_Witness ==
    /\ FormShown
    /\ Untouched
    /\ Len(configFields) = 1
    /\ configFields[1].type = Str("select")
    /\ configFields[1].value = Str("zzz")
    /\ configFields[1].options = Options(<<Option("o1", "One")>>)
    /\ rendered[1].kind = "select"
    /\ rendered[1].value = Str("zzz")

C9_CheckboxInitial ==
    (atsConfig.held /\ WellFormed(atsConfig.doc) /\ ~HasUnknownType(atsConfig.doc) /\ Untouched) =>
        \A i \in 1..Len(configFields) :
            configFields[i].type = Str("checkbox") =>
                /\ ~crashed
                /\ rendered[i].kind = "checkbox"
                /\ rendered[i].name = configFields[i].id
                /\ configFields[i].value = Bool(TRUE) => rendered[i].value = Bool(TRUE)
                /\ configFields[i].value # Bool(TRUE) => rendered[i].value = Bool(FALSE)
C9_Witness ==
    /\ FormShown
    /\ Untouched
    /\ Len(configFields) = 1
    /\ configFields[1].type = Str("checkbox")
    /\ configFields[1].value = Str("yes")
    /\ rendered[1].kind = "checkbox"
    /\ rendered[1].value = Bool(FALSE)

\* C10: the initial value of a text control is the field's value when it is
\* a string and "" otherwise, and the placeholder is the field's placeholder.
C10_TextInitial ==
    (FormShown /\ Untouched) =>
        \A i \in 1..Len(configFields) :
            configFields[i].type = Str("text") =>
                /\ rendered[i].kind = "text"
                /\ configFields[i].value.t = "string" => rendered[i].value = configFields[i].value
                /\ configFields[i].value.t # "string" => rendered[i].value = Str("")
                /\ rendered[i].placeholder = configFields[i].placeholder
C10_Witness ==
    /\ FormShown
    /\ Untouched
    /\ Len(configFields) = 1
    /\ configFields[1].type = Str("text")
    /\ configFields[1].value = Num(1)
    /\ configFields[1].placeholder = Str("type here")
    /\ rendered[1].kind = "text"
    /\ rendered[1].value = Str("")
    /\ rendered[1].placeholder = Str("type here")

\* C11: the severity of a label field's wrapper is none for a label-class of
\* undefined or "default" and the label-class itself for "info", "warning",
\* "error" and "success"; the render does not throw.
C11_SeverityTotal ==
    atsConfig.held =>
        \A i \in 1..Len(configFields) :
            (configFields[i].type \in refappLabelFieldTypes /\ configFields[i].labelClass \in ClassInputs) =>
                /\ ~crashed
                /\ rendered[i].kind \in {"markdown", "typography"}
                /\ configFields[i].labelClass \in {Undefined, Str("default")} =>
                        rendered[i].severity = Undefined
                /\ configFields[i].labelClass \in
                            {Str("info"), Str("warning"), Str("error"), Str("success")} =>
                        rendered[i].severity = configFields[i].labelClass
C11_Witness ==
    /\ FormShown
    /\ Len(configFields) = 1
    /\ configFields[1].type = Str("paragraph")
    /\ configFields[1].labelClass = Str("default")
    /\ rendered[1].kind = "typography"
    /\ rendered[1].severity = Undefined

\* The Typography variant the spec names for each label type
HeadingVariant(fieldType) ==
    IF fieldType = Str("header") THEN "h2"
    ELSE IF fieldType = Str("subheader") THEN "h3" ELSE "body1"

\* C12 as stated: a label field shows its label-markdown as rich text
\* whenever the attribute is present, and its plain label, in the variant of
\* its type, only when the attribute is absent.
C12_MarkdownWhenPresent ==
    FormShown =>
        \A i \in 1..Len(configFields) :
            configFields[i].type \in refappLabelFieldTypes =>
                /\ configFields[i].labelMarkdown # Undefined =>
                        /\ rendered[i].kind = "markdown"
                        /\ rendered[i].label = configFields[i].labelMarkdown
                /\ configFields[i].labelMarkdown = Undefined =>
                        /\ rendered[i].kind = "typography"
                        /\ rendered[i].label = configFields[i].label
                        /\ rendered[i].variant = HeadingVariant(configFields[i].type)

\* C12 amended: a label field shows its label-markdown as rich text when it
\* is a non-empty string, and its plain label, in the variant of its type,
\* when label-markdown is absent, null or the empty string.
C12_MarkdownWhenNonEmpty ==
    FormShown =>
        \A i \in 1..Len(configFields) :
            configFields[i].type \in refappLabelFieldTypes =>
                /\ (configFields[i].labelMarkdown.t = "string" /\ configFields[i].labelMarkdown.s # "") =>
                        /\ rendered[i].kind = "markdown"
                        /\ rendered[i].label = configFields[i].labelMarkdown
                /\ configFields[i].labelMarkdown \in {Undefined, Null, Str("")} =>
                        /\ rendered[i].kind = "typography"
                        /\ rendered[i].label = configFields[i].label
                        /\ rendered[i].variant = HeadingVariant(configFields[i].type)
C12_Witness ==
    /\ FormShown
    /\ Len(configFields) = 1
    /\ configFields[1].type = Str("subheader")
    /\ configFields[1].labelMarkdown = Str("")
    /\ rendered[1].kind = "typography"
    /\ rendered[1].label = configFields[1].label
    /\ rendered[1].variant = "h3"

\* C20: the element made for a label field does not depend on its
\* label-html: the same field with any other label-html, or none, is mapped
\* to the element that is on screen.
C20_LabelHtmlUnused ==
    FormShown =>
        \A i \in 1..Len(configFields) :
            configFields[i].type \in refappLabelFieldTypes =>
                \A h \in HtmlInputs :
                    AtsConfigFieldPreview([configFields[i] EXCEPT !.labelHtml = h], value[i])
                        = rendered[i]
C20_Witness ==
    /\ FormShown
    /\ Len(configFields) = 1
    /\ configFields[1].type = Str("header")
    /\ configFields[1].labelHtml = Str("<b>bold</b>")
    /\ configFields[1].labelMarkdown = Undefined
    /\ rendered[1].kind = "typography"
    /\ rendered[1].label = configFields[1].label

\* The keys of a submitted mapping
Keys(dataObject) == {dataObject[k][1] : k \in 1..Len(dataObject)}
\* The controls of a form: what the mapper made of the interactive fields
IsControl(element) == element.kind \in {"checkbox", "select", "text"}

\* C13: a disabled control is on the form with its value, and its name (the
\* field's id) is a key of the mapping a submit sends; a ticked checkbox or
\* a text or select control is not left out for being disabled.
C13_DisabledStillSubmitted ==
    \A p \in pendingSubmits :
        \A i \in 1..Len(p.form) :
            (/\ IsControl(p.form[i])
             /\ p.form[i].disabled = Bool(TRUE)
             /\ isString(p.form[i].name) /\ p.form[i].name.s # ""
             /\ p.form[i].kind = "checkbox" => p.form[i].value = Bool(TRUE)) =>
                p.form[i].name.s \in Keys(p.dataObject)

\* C16: in the mapping a submit sends, the name (the field's id) of every
\* enabled control of the form is a key holding the current value of that
\* control, and no key occurs twice.
C16_EveryControlSubmitted ==
    \A p \in pendingSubmits :
        /\ \A i \in 1..Len(p.form) :
              (/\ IsControl(p.form[i])
               /\ ~Truthy(p.form[i].disabled)
               /\ isString(p.form[i].name) /\ p.form[i].name.s # "") =>
                  \E k \in 1..Len(p.dataObject) :
                      p.dataObject[k] = <<p.form[i].name.s, p.form[i].value>>
        /\ \A k1, k2 \in 1..Len(p.dataObject) :
              p.dataObject[k1][1] = p.dataObject[k2][1] => k1 = k2

\* C17: a document with a field of type "hidden" is not held with that
\* field in it, and the mapper is never invoked on a "hidden" field.
C17_HiddenExcluded ==
    atsConfig.held =>
        /\ atsConfig.doc.fields.t = "array" =>
              \A i \in 1..Len(configFields) : configFields[i].type # Str("hidden")
        /\ \A i \in 1..Len(MapperInvocations(atsConfig.doc)) :
              MapperInvocations(atsConfig.doc)[i].type # Str("hidden")

\* A field without the attributes of interactive fields
Bare(field) ==
    [field EXCEPT !.value = Undefined, !.placeholder = Undefined, !.options = NoOptions,
                  !.disabled = Undefined]

C19_IdsNonEmpty ==
    (atsConfig.held /\ atsConfig.doc.config = "object" /\ atsConfig.doc.fields.t = "array") =>
        \A i \in 1..Len(configFields) :
            isString(configFields[i].id) /\ configFields[i].id.s # ""

\* The fetch that settled last met a failure the claim names: fetch()
\* rejected, the body was not JSON, or the live endpoint answered non-OK
Failed(settled) ==
    \/ settled.kind \in {"rejected", "not-json"}
    \/ settled.kind = "json" /\ ~settled.ok /\ settled.fn = "fetchFromRefapp"
\* The document with the one field {id: "error", type: "text", label: text}
ErrorDocument(text) ==
    [config |-> "object",
     fields |-> [t |-> "array", items |-> <<Field(Str("error"), Str("text"), text)>>]]
ErrorText(settled) ==
    IF settled.message \in {Undefined, Null} THEN Str("An error occurred") ELSE settled.message

\* C15: whenever a config fetch settles while the page is up, its promise is
\* fulfilled, never rejected, and after a failure the held document is the
\* one-field error document whose label is the error message.
C15_ErrorsAreValues ==
    [][(lastSettled' # lastSettled /\ ~crashed) =>
          /\ lastSettled'.state = "fulfilled"
          /\ Failed(lastSettled') =>
                atsConfig' = [held |-> TRUE, doc |-> ErrorDocument(ErrorText(lastSettled'))]]_vars
C15_Witness ==
    /\ lastSettled.fn = "fetchFromRefapp"
    /\ lastSettled.kind = "json"
    /\ ~lastSettled.ok
    /\ lastSettled.message = Str("Unauthorized")
    /\ heldRequest = lastSettled.request
    /\ FormShown
    /\ configFields = <<Field(Str("error"), Str("text"), Str("Unauthorized"))>>
    /\ rendered[1].kind = "text"

\* What the effect of App.tsx depends on: the source of the configuration
ConfigSource ==
    <<configMethod, atsConfigFile, liveConfigEndpoint, liveAtsSecret, liveCustomerSecret,
      resetTrigger>>

\* C14: a step starts at most one fetch; it starts one only if it changes
\* the source of the configuration, and it does start one when it changes
\* the source and leaves it complete. A fetch that settles starts none.
C14_OneFetchPerChange ==
    [][/\ fetchCount' \in {fetchCount, fetchCount + 1}
       /\ fetchCount' = fetchCount + 1 => ConfigSource' # ConfigSource
       /\ (/\ ConfigSource' # ConfigSource
           /\ SourceComplete(configMethod', atsConfigFile', liveConfigEndpoint',
                              livePostEndpoint', liveAtsSecret', liveCustomerSecret')) =>
                fetchCount' = fetchCount + 1]_vars

\* The three attributes of the candidate the claim names
CandidateNames ==
    {"partner-event.candidate.first-name", "partner-event.candidate.last-name",
     "partner-event.candidate.email"}
\* The payload has every attribute one of the two schemas requires
HasRequired(schema, payload) ==
    \A a \in Attributes :
        schema[a].decl = "required" => Accepts(schema[a].type, payload[a])
\* The optional attributes of the payload are all absent or well typed
OptionalsFine(schema, payload) ==
    \A a \in Attributes :
        schema[a].decl # "required" =>
            (payload[a] = Undefined \/ Accepts(schema[a].type, payload[a]))

\* C21 as stated: the payload schema rejects a payload whose candidate
\* lacks first-name, last-name or email, and accepts one that has the
\* three and the other required attributes.
C21_CandidateNamesRequired ==
    (schemaInput # Undefined /\ schemaOutput # Undefined) =>
        /\ (\E a \in CandidateNames : schemaInput[a] = Undefined) => ~schemaOutput.ok
        /\ (/\ \A a \in CandidateNames : schemaInput[a].t = "string"
            /\ HasRequired(atsPartnerEventPayloadSchema, schemaInput)
            /\ OptionalsFine(atsPartnerEventPayloadSchema, schemaInput)) => schemaOutput.ok

\* C21 amended: both schemas reject a candidate without first-name or
\* last-name; a candidate without email is rejected by the schema of
\* react-sample/src/lib and accepted by the schema of unnamed/part_001,
\* where email is optional; each accepts a payload with its required
\* attributes.
C21_EmailOptionalInNewerSchema ==
    /\ (schemaInput # Undefined /\ schemaOutput # Undefined) =>
          /\ (\E a \in CandidateNames \ {"partner-event.candidate.email"} :
                    schemaInput[a] = Undefined) => ~schemaOutput.ok
          /\ (/\ HasRequired(atsPartnerEventPayloadSchema, schemaInput)
              /\ OptionalsFine(atsPartnerEventPayloadSchema, schemaInput)) =>
                    /\ schemaOutput.ok
                    /\ schemaOutput.data["partner-event.candidate.email"] =
                            schemaInput["partner-event.candidate.email"]
    /\ (schemaInput # Undefined /\ reactSampleOutput # Undefined) =>
          /\ (\E a \in CandidateNames : schemaInput[a] = Undefined) => ~reactSampleOutput.ok
          /\ (/\ HasRequired(reactSamplePayloadSchema, schemaInput)
              /\ OptionalsFine(reactSamplePayloadSchema, schemaInput)) => reactSampleOutput.ok
C21_Witness ==
    /\ schemaInput # Undefined
    /\ schemaOutput # Undefined
    /\ reactSampleOutput # Undefined
    /\ schemaInput["partner-event.candidate.email"] = Undefined
    /\ schemaInput["partner-event.candidate.first-name"] = Str("x")
    /\ schemaInput["partner-event.partner-result.status"] = Str("sent")
    /\ schemaOutput.ok
    /\ ~reactSampleOutput.ok

\* C22: in live mode with both endpoints valid and both secrets filled in,
\* the configuration is fetched and held: once no fetch is in flight and the
\* page is up, a document is held, whichever setting was filled in last.
C22_CompleteLiveSourceHeld ==
    (/\ configMethod = "live"
     /\ SourceComplete(configMethod, atsConfigFile, liveConfigEndpoint, livePostEndpoint,
                        liveAtsSecret, liveCustomerSecret)
     /\ pendingFetches = {}
     /\ ~crashed) => atsConfig.held

\* C23: after the effect has found the source incomplete and cleared the
\* held document, and until the source changes again, nothing is held and
\* no form is rendered, whatever fetch settles meanwhile.
C23_ClearedStaysCleared ==
    (latestRequest = 0 /\ ~crashed) => (~atsConfig.held /\ rendered = <<>>)

\* The Submit button is on screen: onSubmit is passed to AtsConfigPreview
SubmitAvailable == FormShown /\ configMethod = "live"

\* C24: whenever Submit is available, the held document was fetched by
\* fetchFromRefapp, and by the fetch the effect started for the current
\* settings; a document fetched from a sample file is never submittable.
C24_SubmitOnlyLiveDocument ==
    SubmitAvailable =>
        /\ heldRequest = lastSettled.request
        /\ lastSettled.fn = "fetchFromRefapp"
        /\ heldRequest = latestRequest

\* C25: a click on Reset empties the submit result and starts exactly one
\* fetch of the current source; and whenever a fetch settles into a form,
\* every control shows the value of its field in the document now held.
C25_ResetRefetches ==
    [][/\ resetTrigger' # resetTrigger =>
            (submitResults' = "" /\ fetchCount' = fetchCount + 1)
       /\ (lastSettled' # lastSettled /\ ~crashed /\ ~crashed') =>
            value' = InitialValues(atsConfig'.doc.fields.items)]_vars

\* generateCandidate(recruiterDomain) and the body submitLive posts, as a
\* payload over the attribute paths of the schema; the random ids are
\* strings, and "partner-result" is the empty object
submitLiveBody(customerSecret, customerDomain, dataObject) ==
    [a \in Attributes |->
        CASE a \in {"partner-event", "partner-event.company", "partner-event.candidate",
                    "partner-event.candidate.job", "partner-event.candidate.recruiter",
                    "partner-event.partner-result", "partner-event.webhook-data"} -> ObjectValue
          [] a = "partner-event.company.uuid" -> Str(customerSecret)
          [] a = "partner-event.candidate.id" -> Str("k3j9x")
          [] a = "partner-event.candidate.first-name" -> Str("John")
          [] a = "partner-event.candidate.last-name" -> Str("Doe")
          [] a = "partner-event.candidate.email" -> Str("john.doe.k3j9x@private.example")
          [] a = "partner-event.candidate.phone" -> Str("+46701740642")
          [] a = "partner-event.candidate.language" -> Str("en")
          [] a = "partner-event.candidate.job.id" -> Str("p0q7w")
          [] a = "partner-event.candidate.job.title" -> Str("Job #p0q7w")
          [] a = "partner-event.candidate.recruiter.first-name" -> Str("Richard")
          [] a = "partner-event.candidate.recruiter.last-name" -> Str("Roe")
          [] a = "partner-event.candidate.recruiter.email" -> Str("richard.roe@" \o customerDomain)
          [] OTHER -> Undefined]

\* C26: the body of every request submitLive sends parses under
\* atsPartnerEventPayloadSchema, in either copy of the schema.
C26_BodyConforms ==
    \A p \in pendingSubmits :
        LET body == submitLiveBody(p.customerSecret, p.customerDomain, p.dataObject)
        IN /\ safeParse(atsPartnerEventPayloadSchema, body).ok
           /\ safeParse(reactSamplePayloadSchema, body).ok

\* C27: whatever the state of a control holds, a checkbox shows a boolean
\* and a text or select control shows a string; it is the state's value
\* when that has the right type.
C27_ShownValueTyped ==
    FormShown =>
        \A i \in 1..Len(rendered) :
            /\ rendered[i].kind = "checkbox" =>
                    /\ isBoolean(rendered[i].value)
                    /\ isBoolean(value[i]) => rendered[i].value = value[i]
            /\ rendered[i].kind \in {"text", "select"} =>
                    /\ isString(rendered[i].value)
                    /\ isString(value[i]) => rendered[i].value = value[i]
C27_Witness ==
    /\ FormShown
    /\ Len(configFields) = 1
    /\ rendered[1].kind = "select"
    /\ value[1] = Bool(TRUE)
    /\ rendered[1].value = Str("")

\* expanded={configMethod === "sample"} / expanded={configMethod === "live"}
Expanded(id) == configMethod = substring7(id)
\* Values toConfigMethod may be handed
MethodTexts == {"sample", "live", "", "other", "Sample"}

\* C28: the config method is "sample" or "live" and exactly one of the two
\* accordions is expanded; a click on an accordion sets the method to the
\* suffix of its id, which for the expanded one is the method it already
\* is; toConfigMethod turns any other value into "sample".
C28_OneAccordionExpanded ==
    /\ configMethod \in {"sample", "live"}
    /\ Cardinality({id \in AccordionIds : Expanded(id)}) = 1
    /\ \A id \in AccordionIds :
          /\ toConfigMethod(substring7(id)) = substring7(id)
          /\ Expanded(id) => toConfigMethod(substring7(id)) = configMethod
    /\ \A v \in MethodTexts :
          toConfigMethod(v) = IF v \in {"sample", "live"} THEN v ELSE "sample"
C28_Witness ==
    /\ ~crashed
    /\ configMethod = "live"
    /\ Expanded("config-live")
    /\ ~Expanded("config-sample")
    /\ atsConfigFile # ""

\* What the claim says a POST outcome is turned into
SubmitTexts ==
    {IF response.kind = "json" THEN response.pretty ELSE response.message :
        response \in SubmitResponses}

\* C29: when a submit settles while the page is up, the submit result
\* becomes the text of its outcome, the pretty-printed JSON answer or the
\* error message; neither the click on Submit nor its settling changes the
\* held document or the values of the controls.
C29_SubmitResolvesToText ==
    [][/\ (pendingSubmits' # pendingSubmits /\ pendingSubmits' \subseteq pendingSubmits
           /\ ~crashed) =>
             (submitResults' \in SubmitTexts /\ submitResults' # "")
       /\ pendingSubmits' # pendingSubmits =>
             (atsConfig' = atsConfig /\ value' = value /\ rendered' = rendered)]_vars
C29_Witness ==
    /\ FormShown
    /\ submitCount = 1
    /\ pendingSubmits = {}
    /\ submitResults = "Unexpected token <"
    /\ value # InitialValues(configFields)

====
